---- MODULE Spec2Model ----
(***************************************************************************)
(* qless-py: the Queue client (src/qless/queue.py) in front of the qless   *)
(* queue engine.  Every method of Queue is one call of an engine command   *)
(* (client._put, _pop, _peek, _fail, _heartbeat, _complete) that runs      *)
(* atomically.  The commands themselves are not part of queue.py; they are *)
(* modelled here from the engine's description (sections 3, 4 and 6 of the *)
(* specification) as pure operators over the engine's data, and the        *)
(* methods of Queue as the actions that call them.                         *)
(*                                                                         *)
(* Python's optional arguments are modelled as sequences of length at most *)
(* one: <<>> is None and <<v>> is the value v.                             *)
(***************************************************************************)
EXTENDS Integers, Sequences, FiniteSets, TLC

\* ---------------------------------------------------------------- bounds
\* Spec: two queues, two workers
MaxJobs == 2
MaxTicks == 2
\* SpecOrder: one queue, every priority and count
OrderJobs == 2
\* SpecRetry: one job followed until its retries run out
RetryTicks == 12
\* SpecLen: the jobs put while a length is taken
LenJobs == 2
\* SpecMove: the jobs put and then put again under their id
MoveJobs == 1
\* SpecLive: the jobs put, and how long jobs are put
LiveJobs == 1
LiveTicks == 2

\* ------------------------------------------------------------- constants
\* Queue.__init__: self._hb = 60
hb == 60
\* Queue.put: retries or 5
DefaultRetries == 5

Queues == {"qa", "qb"}
Workers == {"w1", "w2"}
NoWorker == ""
RetriesExceeded == "retries exceeded"
Categories == {"bad data"}

\* the clock is read a lease's length apart
TickLen == hb

\* the arguments the callers pass
PriorityArgs == {<<>>, <<-5>>, <<5>>}
DelayArgs == {<<>>, <<0>>, <<TickLen>>}
RetriesArgs == {<<>>, <<0>>, <<1>>}
CountArgs == {<<>>, <<0>>, <<2>>}
\* complete(job) and complete(job, next, delay)
CompleteArgs(nexts) ==
    {<< <<>>, <<>> >>} \cup (({<<q>> : q \in nexts}) \X {<<>>, <<TickLen>>})

VARIABLES
    now,        \* time.time()
    jobs,       \* Job Record Store: id -> record
    work,       \* queue -> ids in its waiting set   (ql:q:<name>-work)
    scheduled,  \* queue -> ids in its scheduled set (ql:q:<name>-scheduled)
    locks,      \* queue -> ids in its locks set     (ql:q:<name>-locks)
    failed,     \* Failure Ledger: ids of failed jobs
    ret,        \* the last call of a Queue method and what it returned
    hist,       \* history: id -> the retries asked at put, the reclaims so
                \* far, the workers that lost a lease on it, the time before
                \* which it is not due
    pipe        \* the redis pipeline of a running len(queue): the commands
                \* buffered and the replies read so far

vars == <<now, jobs, work, scheduled, locks, failed, ret, hist, pipe>>
engine == <<jobs, work, scheduled, locks, failed>>

DB == [jobs |-> jobs, work |-> work, scheduled |-> scheduled,
       locks |-> locks, failed |-> failed]

\* ------------------------------------------------------ Python's `x or d`
OrDefault(x, d) == IF x = <<>> THEN d ELSE IF x[1] = 0 THEN d ELSE x[1]

\* ======================================================= the engine's data
NewJob(q, t, prio, retries, st) ==
    [priority |-> prio, created |-> t, retries |-> retries, queue |-> q,
     state |-> st, worker |-> NoWorker, expires |-> 0, failure |-> "",
     ready |-> 0]

\* the sets of every queue without the job `id`
Without(sets, id) == [q \in Queues |-> sets[q] \ {id}]

\* waiting order: priority, then creation time, ascending; ids are handed
\* out in creation order and settle what is left of a tie
Before(db, a, b) ==
    LET ja == db.jobs[a]
        jb == db.jobs[b]
    IN  \/ ja.priority < jb.priority
        \/ ja.priority = jb.priority /\ ja.created < jb.created
        \/ ja.priority = jb.priority /\ ja.created = jb.created /\ a < b

First(db, S) == CHOOSE a \in S : \A b \in S \ {a} : Before(db, a, b)

RECURSIVE Sorted(_, _)
Sorted(db, S) ==
    IF S = {} THEN <<>>
    ELSE LET a == First(db, S) IN <<a>> \o Sorted(db, S \ {a})

FirstN(s, n) == SubSeq(s, 1, IF n < Len(s) THEN n ELSE Len(s))

Range(s) == {s[i] : i \in 1..Len(s)}

\* ------------------------------------------------ reclaimExpired(now)
Expired(db, q, t) == {j \in db.locks[q] : db.jobs[j].expires < t}

\* mutant of ReclaimExpired: the record keeps its lease-owner
ReclaimKeepsOwner(db, q, t) ==
    LET exp  == Expired(db, q, t)
        back == {j \in exp : db.jobs[j].retries - 1 >= 0}
        dead == exp \ back
    IN  [db EXCEPT
           !.jobs = [j \in DOMAIN db.jobs |->
                IF j \in back
                THEN [db.jobs[j] EXCEPT !.retries = @ - 1, !.state = "waiting",
                                        !.expires = 0]
                ELSE IF j \in dead
                THEN [db.jobs[j] EXCEPT !.state = "failed",
                                        !.expires = 0, !.failure = RetriesExceeded]
                ELSE db.jobs[j]],
           !.locks[q] = @ \ exp,
           !.work[q] = @ \cup back,
           !.failed = @ \cup dead]

ReclaimExpired(db, q, t) ==
    LET exp  == Expired(db, q, t)
        back == {j \in exp : db.jobs[j].retries - 1 >= 0}
        dead == exp \ back
    IN  [db EXCEPT
           !.jobs = [j \in DOMAIN db.jobs |->
                IF j \in back
                THEN [db.jobs[j] EXCEPT !.retries = @ - 1, !.state = "waiting",
                                        !.worker = NoWorker, !.expires = 0]
                ELSE IF j \in dead
                THEN [db.jobs[j] EXCEPT !.state = "failed", !.worker = NoWorker,
                                        !.expires = 0, !.failure = RetriesExceeded]
                ELSE db.jobs[j]],
           !.locks[q] = @ \ exp,
           !.work[q] = @ \cup back,
           !.failed = @ \cup dead]

\* ---------------------------------------------------- promoteDue(now)
Due(db, q, t) == {j \in db.scheduled[q] : db.jobs[j].ready <= t}

PromoteDue(db, q, t) ==
    LET due == Due(db, q, t)
    IN  [db EXCEPT
           !.jobs = [j \in DOMAIN db.jobs |->
                IF j \in due THEN [db.jobs[j] EXCEPT !.state = "waiting", !.ready = 0]
                ELSE db.jobs[j]],
           !.scheduled[q] = @ \ due,
           !.work[q] = @ \cup due]

\* reclaim, then promotion: what pop and peek both do first
Refresh(db, q, t) == PromoteDue(ReclaimExpired(db, q, t), q, t)

\* ================================================== the engine's commands
\* Each yields [db |-> the data afterwards, res |-> what the command returns].

\* mutant of EnginePut: a job put again stays in the locks set it was in,
\* under its lease
EnginePutKeepsLease(db, q, id, t, prio, delay, retries) ==
    LET st  == IF delay > 0 THEN "scheduled" ELSE "waiting"
        old == id \in DOMAIN db.jobs
        rec == [NewJob(q, t, prio, retries, st) EXCEPT
                   !.ready = IF delay > 0 THEN t + delay ELSE 0,
                   !.worker = IF old THEN db.jobs[id].worker ELSE NoWorker,
                   !.expires = IF old THEN db.jobs[id].expires ELSE 0]
        w0  == Without(db.work, id)
        s0  == Without(db.scheduled, id)
    IN  [db  |-> [jobs |-> [j \in DOMAIN db.jobs \cup {id} |->
                               IF j = id THEN rec ELSE db.jobs[j]],
                  work |-> IF delay > 0 THEN w0
                           ELSE [w0 EXCEPT ![q] = @ \cup {id}],
                  scheduled |-> IF delay > 0
                                THEN [s0 EXCEPT ![q] = @ \cup {id}]
                                ELSE s0,
                  locks |-> db.locks,
                  failed |-> db.failed \ {id}],
         res |-> id]

\* Put(queue, id, payload, now, priority, tags, delay, retries) -> jobId
EnginePut(db, q, id, t, prio, delay, retries) ==
    LET st  == IF delay > 0 THEN "scheduled" ELSE "waiting"
        old == id \in DOMAIN db.jobs
        rec == [NewJob(q, t, prio, retries, st) EXCEPT
                   !.ready = IF delay > 0 THEN t + delay ELSE 0]
        w0  == Without(db.work, id)
        s0  == Without(db.scheduled, id)
    IN  [db  |-> [jobs |-> [j \in DOMAIN db.jobs \cup {id} |->
                               IF j = id THEN rec ELSE db.jobs[j]],
                  work |-> IF delay > 0 THEN w0
                           ELSE [w0 EXCEPT ![q] = @ \cup {id}],
                  scheduled |-> IF delay > 0
                                THEN [s0 EXCEPT ![q] = @ \cup {id}]
                                ELSE s0,
                  locks |-> Without(db.locks, id),
                  failed |-> db.failed \ {id}],
         res |-> id]

\* Pop(queue, workerId, count, now, leaseExpiry) -> [Job]
EnginePop(db, q, w, n, t, expiry) ==
    LET d   == Refresh(db, q, t)
        sel == FirstN(Sorted(d, d.work[q]), n)
        got == Range(sel)
    IN  [db  |-> [d EXCEPT
                    !.jobs = [j \in DOMAIN d.jobs |->
                        IF j \in got
                        THEN [d.jobs[j] EXCEPT !.state = "leased", !.worker = w,
                                               !.expires = expiry]
                        ELSE d.jobs[j]],
                    !.work[q] = @ \ got,
                    !.locks[q] = @ \cup got],
         res |-> sel]

\* Peek(queue, count, now) -> [Job]
EnginePeek(db, q, n, t) ==
    LET d == Refresh(db, q, t)
    IN  [db |-> d, res |-> FirstN(Sorted(d, d.work[q]), n)]

\* whether the record says the job is leased to worker w
LeasedBy(db, id, w) ==
    /\ id \in DOMAIN db.jobs
    /\ db.jobs[id].state = "leased"
    /\ db.jobs[id].worker = w

\* Heartbeat(jobId, workerId, newExpiry, payload?) -> expiryTimestamp | 0
\* The command is handed the new expiry and no current time.
EngineHeartbeat(db, id, w, expiry) ==
    IF LeasedBy(db, id, w)
    THEN [db  |-> [db EXCEPT !.jobs[id].expires = expiry], res |-> expiry]
    ELSE [db |-> db, res |-> 0]

\* Complete(jobId, workerId, queue, now, payload, nextQueue?, delay?) -> bool
EngineComplete(db, id, w, q, t, next, delay) ==
    IF ~(LeasedBy(db, id, w) /\ db.jobs[id].queue = q)
    THEN [db |-> db, res |-> FALSE]
    ELSE LET l0 == [db.locks EXCEPT ![q] = @ \ {id}]
             rec == [db.jobs[id] EXCEPT !.worker = NoWorker, !.expires = 0]
         IN  IF next = <<>>
             THEN [db  |-> [db EXCEPT !.jobs[id] = [rec EXCEPT !.state = "complete"],
                                      !.locks = l0],
                   res |-> TRUE]
             ELSE IF delay > 0
             THEN [db  |-> [db EXCEPT
                              !.jobs[id] = [rec EXCEPT !.state = "scheduled",
                                              !.queue = next[1], !.ready = t + delay],
                              !.locks = l0,
                              !.scheduled[next[1]] = @ \cup {id}],
                   res |-> TRUE]
             ELSE [db  |-> [db EXCEPT
                              !.jobs[id] = [rec EXCEPT !.state = "waiting",
                                              !.queue = next[1]],
                              !.locks = l0,
                              !.work[next[1]] = @ \cup {id}],
                   res |-> TRUE]

\* mutant of EngineFail: a scheduled job is left in its scheduled set
EngineFailKeepsScheduled(db, id, w, cat, t) ==
    IF id \notin DOMAIN db.jobs \/ db.jobs[id].state = "complete"
    THEN [db |-> db, res |-> 0]
    ELSE [db  |-> [jobs |-> [db.jobs EXCEPT
                               ![id] = [@ EXCEPT !.state = "failed", !.worker = NoWorker,
                                                 !.expires = 0, !.ready = 0,
                                                 !.failure = cat]],
                   work |-> Without(db.work, id),
                   scheduled |-> db.scheduled,
                   locks |-> Without(db.locks, id),
                   failed |-> db.failed \cup {id}],
          res |-> id]

\* Fail(jobId, workerId, category, message, now, payload?) -> jobId | false
\* A job in any state can be failed; a retired job is no longer there.
EngineFail(db, id, w, cat, t) ==
    IF id \notin DOMAIN db.jobs \/ db.jobs[id].state = "complete"
    THEN [db |-> db, res |-> 0]
    ELSE [db  |-> [jobs |-> [db.jobs EXCEPT
                               ![id] = [@ EXCEPT !.state = "failed", !.worker = NoWorker,
                                                 !.expires = 0, !.ready = 0,
                                                 !.failure = cat]],
                   work |-> Without(db.work, id),
                   scheduled |-> Without(db.scheduled, id),
                   locks |-> Without(db.locks, id),
                   failed |-> db.failed \cup {id}],
          res |-> id]

\* ===================================================== the Queue methods
Apply(db) ==
    /\ jobs' = db.jobs
    /\ work' = db.work
    /\ scheduled' = db.scheduled
    /\ locks' = db.locks
    /\ failed' = db.failed
    /\ pipe' = pipe

\* ret: the method called, on which Queue object (its name and worker) and
\* which job, and what it returned (jobs: the ids pop and peek return; val:
\* every other method's value, with Python's False as 0 and True as 1);
\* woke: the jobs of the queue whose delay had run out when pop or peek came
Call(op, q, w, id, js, val, woke) ==
    [op |-> op, queue |-> q, worker |-> w, job |-> id, jobs |-> js, val |-> val,
     woke |-> woke]

\* history: the jobs still scheduled in queue q although their time has come
Woken(q) ==
    {j \in DOMAIN jobs :
        jobs[j].queue = q /\ jobs[j].state = "scheduled" /\ hist[j].due <= now}

\* history: every lease that pop or peek on queue q finds expired is reclaimed
Reclaimed(q) ==
    [j \in DOMAIN hist |->
        IF j \in Expired(DB, q, now)
        THEN [hist[j] EXCEPT !.reclaims = @ + 1, !.lost = @ \cup {jobs[j].worker}]
        ELSE hist[j]]

\* history: the time from which a job handed in at time t with `delay` may be
\* handed out (0: from now on)
DueAt(t, delay) == IF delay = <<>> THEN 0 ELSE IF delay[1] > 0 THEN t + delay[1] ELSE 0

\* uuid.uuid1().hex: an id no job has yet
FreshId == Cardinality(DOMAIN jobs) + 1

\* what put records of its arguments
PutHistory(delay, retries) ==
    [j \in DOMAIN hist \cup {FreshId} |->
        IF j = FreshId
        THEN [asked |-> retries, reclaims |-> 0, lost |-> {}, due |-> DueAt(now, delay)]
        ELSE hist[j]]

\* mutant of Put: the retries argument is dropped and the default sent
PutIgnoresRetries(q, priority, delay, retries) ==
    /\ LET r == EnginePut(DB, q, FreshId, now, OrDefault(priority, 0),
                          OrDefault(delay, 0), DefaultRetries)
       IN  /\ Apply(r.db)
           /\ ret' = Call("put", q, NoWorker, r.res, <<>>, r.res, {})
    /\ hist' = PutHistory(delay, retries)
    /\ UNCHANGED now

\* mutant of Put: `retries or 0` where the code has `retries or 5`
PutZeroDefault(q, priority, delay, retries) ==
    /\ LET r == EnginePut(DB, q, FreshId, now, OrDefault(priority, 0),
                          OrDefault(delay, 0), OrDefault(retries, 0))
       IN  /\ Apply(r.db)
           /\ ret' = Call("put", q, NoWorker, r.res, <<>>, r.res, {})
    /\ hist' = PutHistory(delay, retries)
    /\ UNCHANGED now

\* mutant of Put: the delay argument is dropped and 0 sent
PutIgnoresDelay(q, priority, delay, retries) ==
    /\ LET r == EnginePut(DB, q, FreshId, now, OrDefault(priority, 0),
                          0, OrDefault(retries, DefaultRetries))
       IN  /\ Apply(r.db)
           /\ ret' = Call("put", q, NoWorker, r.res, <<>>, r.res, {})
    /\ hist' = PutHistory(delay, retries)
    /\ UNCHANGED now

\* mutant of Put: one queue's name is sent whatever self.name is
PutIntoOneQueue(q, priority, delay, retries) ==
    /\ LET r == EnginePut(DB, "qa", FreshId, now, OrDefault(priority, 0),
                          OrDefault(delay, 0), OrDefault(retries, DefaultRetries))
       IN  /\ Apply(r.db)
           /\ ret' = Call("put", q, NoWorker, r.res, <<>>, r.res, {})
    /\ hist' = PutHistory(delay, retries)
    /\ UNCHANGED now

\* what a put under the id of an existing job records: the job starts anew,
\* and a worker that held it has lost it
MoveHistory(id, delay, retries) ==
    [hist EXCEPT ![id] =
        [asked |-> retries, reclaims |-> 0, due |-> DueAt(now, delay),
         lost |-> IF jobs[id].state = "leased"
                  THEN hist[id].lost \cup {jobs[id].worker} ELSE hist[id].lost]]

\* Put(queue, id, ...) under the id of a job that exists: no method of Queue
\* sends it (Queue.put sends a fresh uuid); a client that names the id does
Move(q, id, priority, delay, retries) ==
    /\ id \in DOMAIN jobs
    /\ LET r == EnginePut(DB, q, id, now, OrDefault(priority, 0),
                          OrDefault(delay, 0), OrDefault(retries, DefaultRetries))
       IN  /\ Apply(r.db)
           /\ ret' = Call("move", q, NoWorker, id, <<>>, r.res, {})
    /\ hist' = MoveHistory(id, delay, retries)
    /\ UNCHANGED now

\* Queue.put(data, priority, tags, delay, retries)
Put(q, priority, delay, retries) ==
    /\ LET r == EnginePut(DB, q, FreshId, now, OrDefault(priority, 0),
                          OrDefault(delay, 0), OrDefault(retries, DefaultRetries))
       IN  /\ Apply(r.db)
           /\ ret' = Call("put", q, NoWorker, r.res, <<>>, r.res, {})
    /\ hist' = PutHistory(delay, retries)
    /\ UNCHANGED now

\* (len(results) and results[0]) or None when count is None, else results
Results(count, results) == IF count = <<>> THEN FirstN(results, 1) ELSE results

\* mutant of Pop: the method calls the peek command where it should call pop
PopCallsPeek(q, w, count) ==
    /\ LET r == EnginePeek(DB, q, OrDefault(count, 1), now)
       IN  /\ Apply(r.db)
           /\ ret' = Call("pop", q, w, 0, Results(count, r.res), 0, Woken(q))
    /\ hist' = Reclaimed(q)
    /\ UNCHANGED now

\* mutant of Pop: the expiration is sent in the place of the current time too
PopSendsExpiryAsNow(q, w, count) ==
    /\ LET r == EnginePop(DB, q, w, OrDefault(count, 1), now + hb, now + hb)
       IN  /\ Apply(r.db)
           /\ ret' = Call("pop", q, w, 0, Results(count, r.res), 0, Woken(q))
    /\ hist' = Reclaimed(q)
    /\ UNCHANGED now

\* mutant of Pop: the time the Queue was made is sent as the current time
PopSendsOldTime(q, w, count) ==
    /\ LET r == EnginePop(DB, q, w, OrDefault(count, 1), 0, now + hb)
       IN  /\ Apply(r.db)
           /\ ret' = Call("pop", q, w, 0, Results(count, r.res), 0, Woken(q))
    /\ hist' = Reclaimed(q)
    /\ UNCHANGED now

\* Queue.pop(count)
Pop(q, w, count) ==
    /\ LET r == EnginePop(DB, q, w, OrDefault(count, 1), now, now + hb)
       IN  /\ Apply(r.db)
           /\ ret' = Call("pop", q, w, 0, Results(count, r.res), 0, Woken(q))
    /\ hist' = Reclaimed(q)
    /\ UNCHANGED now

\* mutant of Peek: the method calls the pop command, as pop does
PeekCallsPop(q, count) ==
    /\ LET r == EnginePop(DB, q, "w1", OrDefault(count, 1), now, now + hb)
       IN  /\ Apply(r.db)
           /\ ret' = Call("peek", q, NoWorker, 0, Results(count, r.res), 0, Woken(q))
    /\ hist' = Reclaimed(q)
    /\ UNCHANGED now

\* Queue.peek(count)
Peek(q, count) ==
    /\ LET r == EnginePeek(DB, q, OrDefault(count, 1), now)
       IN  /\ Apply(r.db)
           /\ ret' = Call("peek", q, NoWorker, 0, Results(count, r.res), 0, Woken(q))
    /\ hist' = Reclaimed(q)
    /\ UNCHANGED now

\* what fail records: a leased job's worker loses the lease
FailHistory(id) ==
    IF jobs[id].state = "leased"
    THEN [hist EXCEPT ![id].lost = @ \cup {jobs[id].worker}]
    ELSE hist

\* mutant of Fail: type and message change places in the call
FailSwapsTypeAndMessage(w, id, cat) ==
    /\ LET r == EngineFail(DB, id, w, "traceback", now)
       IN  /\ Apply(r.db)
           /\ ret' = Call("fail", "", w, id, <<>>, r.res, {})
    /\ hist' = FailHistory(id)
    /\ UNCHANGED now

\* Queue.fail(job, t, message)
Fail(w, id, cat) ==
    /\ LET r == EngineFail(DB, id, w, cat, now)
       IN  /\ Apply(r.db)
           /\ ret' = Call("fail", "", w, id, <<>>, r.res, {})
    /\ hist' = FailHistory(id)
    /\ UNCHANGED now

\* mutant of Heartbeat: the current time is sent, without the lease length
HeartbeatSendsNow(w, id) ==
    /\ LET r == EngineHeartbeat(DB, id, w, now)
       IN  /\ Apply(r.db)
           /\ ret' = Call("heartbeat", "", w, id, <<>>, r.res, {})
    /\ UNCHANGED <<now, hist>>

\* Queue.heartbeat(job)
Heartbeat(w, id) ==
    /\ LET r == EngineHeartbeat(DB, id, w, now + hb)
       IN  /\ Apply(r.db)
           /\ ret' = Call("heartbeat", "", w, id, <<>>, r.res, {})
    /\ UNCHANGED <<now, hist>>

\* what complete records: a job sent on with a delay is due later
CompleteHistory(id, next, delay, done) ==
    IF done /\ next # <<>>
    THEN [hist EXCEPT ![id].due = DueAt(now, delay)]
    ELSE hist

\* mutant of Complete: the job's own queue is sent where the code sends
\* self.name
CompleteSendsJobQueue(q, w, id, next, delay) ==
    /\ LET r == IF next # <<>>
                THEN EngineComplete(DB, id, w, jobs[id].queue, now, next,
                                    OrDefault(delay, 0))
                ELSE EngineComplete(DB, id, w, jobs[id].queue, now, <<>>, 0)
       IN  /\ Apply(r.db)
           /\ ret' = Call("complete", q, w, id, <<>>, IF r.res THEN 1 ELSE 0, {})
           /\ hist' = CompleteHistory(id, next, delay, r.res)
    /\ UNCHANGED now

\* mutant of Complete: the delay is not sent on
CompleteDropsDelay(q, w, id, next, delay) ==
    /\ LET r == IF next # <<>>
                THEN EngineComplete(DB, id, w, q, now, next, 0)
                ELSE EngineComplete(DB, id, w, q, now, <<>>, 0)
       IN  /\ Apply(r.db)
           /\ ret' = Call("complete", q, w, id, <<>>, IF r.res THEN 1 ELSE 0, {})
           /\ hist' = CompleteHistory(id, next, delay, r.res)
    /\ UNCHANGED now

\* Queue.complete(job, next, delay)
Complete(q, w, id, next, delay) ==
    /\ LET r == IF next # <<>>
                THEN EngineComplete(DB, id, w, q, now, next, OrDefault(delay, 0))
                ELSE EngineComplete(DB, id, w, q, now, <<>>, 0)
       IN  /\ Apply(r.db)
           /\ ret' = Call("complete", q, w, id, <<>>, IF r.res THEN 1 ELSE 0, {})
           /\ hist' = CompleteHistory(id, next, delay, r.res)
    /\ UNCHANGED now

\* time.time() moves on, up to the model's horizon
Tick(horizon) ==
    /\ now + TickLen <= horizon
    /\ now' = now + TickLen
    /\ ret' = Call("tick", "", NoWorker, 0, <<>>, 0, {})
    /\ hist' = [j \in DOMAIN hist |->
                  [hist[j] EXCEPT !.due = IF @ <= now + TickLen THEN 0 ELSE @]]
    /\ UNCHANGED <<engine, pipe>>

\* ------------------------------------------------------ Queue.__len__
\* the sets of a queue in the order __len__ asks for their sizes
LenKeys == <<"locks", "work", "scheduled">>

\* zcard of one of the sets of queue q
Zcard(q, key) ==
    IF key = "locks" THEN Cardinality(locks[q])
    ELSE IF key = "work" THEN Cardinality(work[q])
    ELSE Cardinality(scheduled[q])

NoPipe == [queue |-> "", sent |-> <<>>, seen |-> <<>>]

\* mutant of PipeZcard: the command goes to the server at once and its reply
\* is read there and then, not in the transaction
ZcardAtOnce(p, q, key) ==
    [queue |-> q, sent |-> Append(p.sent, key), seen |-> Append(p.seen, Zcard(q, key))]

\* p.zcard(key): the pipeline buffers the command; nothing is read
PipeZcard(p, q, key) ==
    [queue |-> q, sent |-> Append(p.sent, key), seen |-> p.seen]

\* p.execute(): the buffered commands run as one transaction (MULTI/EXEC) and
\* their replies come back in order
Execute(p) ==
    [i \in 1..Len(p.sent) |->
        IF i <= Len(p.seen) THEN p.seen[i] ELSE Zcard(p.queue, p.sent[i])]

RECURSIVE Sum(_)
Sum(s) == IF s = <<>> THEN 0 ELSE Head(s) + Sum(Tail(s))

\* Queue.__len__, one p.zcard(...) line
LenZcard(q) ==
    /\ pipe.queue \in {"", q}
    /\ Len(pipe.sent) < Len(LenKeys)
    /\ pipe' = PipeZcard(pipe, q, LenKeys[Len(pipe.sent) + 1])
    /\ ret' = Call("zcard", q, NoWorker, 0, <<>>, 0, {})
    /\ UNCHANGED <<engine, now, hist>>

\* Queue.__len__, return sum(p.execute())
LenExecute ==
    /\ Len(pipe.sent) = Len(LenKeys)
    /\ ret' = Call("len", pipe.queue, NoWorker, 0, <<>>, Sum(Execute(pipe)), {})
    /\ pipe' = NoPipe
    /\ UNCHANGED <<engine, now, hist>>

Init ==
    /\ now = 0
    /\ jobs = <<>>
    /\ work = [q \in Queues |-> {}]
    /\ scheduled = [q \in Queues |-> {}]
    /\ locks = [q \in Queues |-> {}]
    /\ failed = {}
    /\ ret = Call("init", "", NoWorker, 0, <<>>, 0, {})
    /\ hist = <<>>
    /\ pipe = NoPipe

\* the calls that need a job: any job the engine has handed out
Handles(ws, qs, nexts) ==
    \/ \E w \in ws, id \in DOMAIN jobs, c \in Categories : Fail(w, id, c)
    \/ \E w \in ws, id \in DOMAIN jobs : Heartbeat(w, id)
    \/ \E q \in qs, w \in ws, id \in DOMAIN jobs, a \in CompleteArgs(nexts) :
          Complete(q, w, id, a[1], a[2])

\* Spec: two queues and two workers, default priority
Next ==
    \/ \E q \in Queues, d \in {<<>>, <<TickLen>>} :
          FreshId <= MaxJobs /\ Put(q, <<>>, d, <<1>>)
    \/ \E q \in Queues, w \in Workers, c \in {<<>>, <<2>>} : Pop(q, w, c)
    \/ \E q \in Queues, c \in {<<>>, <<2>>} : Peek(q, c)
    \/ Handles(Workers, Queues, {"qb"})
    \/ Tick(MaxTicks * TickLen)

Spec == Init /\ [][Next]_vars

\* SpecOrder: one queue and one worker, every priority, delay and count
NextOrder ==
    \/ \E p \in PriorityArgs, d \in DelayArgs :
          FreshId <= OrderJobs /\ Put("qa", p, d, <<1>>)
    \/ \E c \in CountArgs : Pop("qa", "w1", c)
    \/ \E c \in CountArgs : Peek("qa", c)
    \/ Handles({"w1"}, {"qa"}, {"qa"})
    \/ Tick(MaxTicks * TickLen)

SpecOrder == Init /\ [][NextOrder]_vars

\* SpecRetry: one job with every retry budget, two workers, a long horizon
NextRetry ==
    \/ \E r \in RetriesArgs : FreshId <= 1 /\ Put("qa", <<>>, <<>>, r)
    \/ \E w \in Workers : Pop("qa", w, <<>>)
    \/ Peek("qa", <<>>)
    \/ Handles(Workers, {"qa"}, {"qa"})
    \/ Tick(RetryTicks * TickLen)

SpecRetry == Init /\ [][NextRetry]_vars

\* SpecLen: len(queue) while a worker puts, pops, completes and fails
NextLen ==
    \/ \E d \in {<<>>, <<TickLen>>} : FreshId <= LenJobs /\ Put("qa", <<>>, d, <<1>>)
    \/ Pop("qa", "w1", <<>>)
    \/ Handles({"w1"}, {"qa"}, {"qa"})
    \/ Tick(MaxTicks * TickLen)
    \/ LenZcard("qa")
    \/ LenExecute

SpecLen == Init /\ [][NextLen]_vars

\* SpecMove: a job put, popped and put again under its id
NextMove ==
    \/ \E q \in Queues : FreshId <= MoveJobs /\ Put(q, <<>>, <<>>, <<1>>)
    \/ \E q \in Queues, id \in DOMAIN jobs, d \in {<<>>, <<TickLen>>} :
          Move(q, id, <<>>, d, <<1>>)
    \/ \E q \in Queues, w \in Workers : Pop(q, w, <<>>)
    \/ Handles(Workers, Queues, {"qb"})
    \/ Tick(MaxTicks * TickLen)

SpecMove == Init /\ [][NextMove]_vars

\* SpecLive: workers that pop and then do nothing for the job, while time
\* keeps advancing and the queue keeps being popped.  Past the horizon the
\* clock is read on as long as a lease has yet to expire.
LiveHorizon ==
    IF \E j \in DOMAIN jobs : jobs[j].state = "leased" /\ jobs[j].expires >= now
    THEN now + TickLen
    ELSE LiveTicks * TickLen

LivePop == \E w \in Workers : Pop("qa", w, <<>>)

NextLive ==
    \/ \E r \in {<<>>, <<1>>} : FreshId <= LiveJobs /\ Put("qa", <<>>, <<>>, r)
    \/ LivePop
    \/ Peek("qa", <<>>)
    \/ Tick(LiveHorizon)

SpecLive ==
    Init /\ [][NextLive]_vars /\ WF_vars(Tick(LiveHorizon)) /\ WF_vars(LivePop)

\* ================================================================ claims
States == {"waiting", "scheduled", "leased", "failed", "complete"}

\* a lease that has not run out
Unexpired(j) == jobs[j].state = "leased" /\ jobs[j].expires >= now

\* C1: a job is never leased to two workers at once.  Every job a pop
\* returns was under no unexpired lease when the pop was made, has left every
\* waiting set and is in the locks set of the queue, leased to the caller; and
\* in every state a job is in at most one locks set, under one worker's name.
C1_PopStep ==
    ret'.op = "pop" =>
        \A j \in Range(ret'.jobs) :
            /\ j \in DOMAIN jobs
            /\ ~Unexpired(j)
            /\ \A p \in Queues : j \notin work'[p]
            /\ j \in locks'[jobs'[j].queue]
            /\ jobs'[j].state = "leased"
            /\ jobs'[j].worker = ret'.worker

C1_OneOwner ==
    \A j \in DOMAIN jobs :
        /\ Cardinality({q \in Queues : j \in locks[q]}) <= 1
        /\ \A q \in Queues : j \in locks[q] => jobs[j].worker \in Workers

C1_NoDoubleLease == []C1_OneOwner /\ [][C1_PopStep]_vars

\* a second worker was handed a job whose first lease had run out
C1_Witness ==
    /\ ret.op = "pop"
    /\ ret.worker = "w2"
    /\ \E j \in Range(ret.jobs) :
          hist[j].reclaims = 1 /\ jobs[j].worker = "w2" /\ jobs[j].retries = 0

\* C2: every job is in exactly one of waiting, scheduled, leased, failed,
\* retired: its id is in exactly one of the waiting, scheduled and locks sets
\* of all queues and the failure ledger (in none once retired), and that one
\* is the one its state and queue name.
Memberships(j) ==
    {<<k, q>> \in {"work", "scheduled", "locks"} \X Queues :
        \/ k = "work" /\ j \in work[q]
        \/ k = "scheduled" /\ j \in scheduled[q]
        \/ k = "locks" /\ j \in locks[q]}
    \cup (IF j \in failed THEN {<<"failed", "">>} ELSE {})

C2_OneState ==
    \A j \in DOMAIN jobs :
        /\ jobs[j].state \in States
        /\ Cardinality(Memberships(j)) = IF jobs[j].state = "complete" THEN 0 ELSE 1
        /\ jobs[j].state = "waiting" => j \in work[jobs[j].queue]
        /\ jobs[j].state = "scheduled" => j \in scheduled[jobs[j].queue]
        /\ jobs[j].state = "leased" => j \in locks[jobs[j].queue]
        /\ jobs[j].state = "failed" => j \in failed

\* one job was failed, the other completed into queue qb with a delay
C2_Witness ==
    /\ ret.op = "complete"
    /\ ret.val = 1
    /\ jobs[ret.job].state = "scheduled"
    /\ jobs[ret.job].queue = "qb"
    /\ \E j \in DOMAIN jobs : j # ret.job /\ jobs[j].state = "failed"

\* C3: a job has a lease-owner exactly when it is leased, and a lease-expiry
\* exactly when it is leased.
C3_LeaseFields ==
    \A j \in DOMAIN jobs :
        /\ jobs[j].worker # NoWorker <=> jobs[j].state = "leased"
        /\ jobs[j].expires # 0 <=> jobs[j].state = "leased"

\* a lease ran out and was reclaimed by a peek: the job waits, without owner
C3_Witness ==
    /\ ret.op = "peek"
    /\ \E j \in Range(ret.jobs) :
          /\ hist[j].reclaims = 1
          /\ jobs[j].state = "waiting"
          /\ jobs[j].worker = NoWorker
          /\ jobs[j].expires = 0

\* a lease that has run out and has not been reclaimed yet
Lapsed(j) == jobs[j].state = "leased" /\ jobs[j].expires < now

\* the retry budget the caller named at put (5 when none was named)
Budget(j) == IF hist[j].asked = <<>> THEN DefaultRetries ELSE hist[j].asked[1]

\* C4: retries-remaining never goes below 0.  A pop or peek that finds a
\* lapsed lease on a job of its queue with k > 0 retries left puts the job
\* back in waiting (from where the same pop may lease it again) with k - 1;
\* with 0 left it moves the job to failed, "retries exceeded", and not to
\* waiting.  A job put with retries=1 has 0 left after its first reclaim and
\* is failed by its second.
C4_ReclaimStep ==
    ret'.op \in {"pop", "peek"} =>
        \A j \in DOMAIN jobs :
            (Lapsed(j) /\ jobs[j].queue = ret'.queue) =>
                IF jobs[j].retries > 0
                THEN /\ jobs'[j].retries = jobs[j].retries - 1
                     /\ j \notin failed'
                     /\ \/ j \in work'[ret'.queue] /\ jobs'[j].state = "waiting"
                        \/ /\ ret'.op = "pop"
                           /\ j \in Range(ret'.jobs)
                           /\ jobs'[j].state = "leased"
                ELSE /\ jobs'[j].retries = 0
                     /\ jobs'[j].state = "failed"
                     /\ jobs'[j].failure = RetriesExceeded
                     /\ j \in failed'
                     /\ \A q \in Queues : j \notin work'[q] \cup locks'[q]

C4_Budget ==
    \A j \in DOMAIN jobs :
        /\ jobs[j].retries >= 0
        /\ hist[j].asked = <<1>> =>
              /\ hist[j].reclaims <= 2
              /\ hist[j].reclaims = 0 => jobs[j].retries = 1
              /\ hist[j].reclaims = 1 =>
                    jobs[j].retries = 0 /\ jobs[j].failure # RetriesExceeded
              /\ hist[j].reclaims = 2 => jobs[j].state = "failed"

C4_RetriesNeverNegative == []C4_Budget /\ [][C4_ReclaimStep]_vars

\* the job put with retries=1 went to w1, then to w2, and the next pop failed it
C4_Witness ==
    /\ ret.op = "pop"
    /\ ret.jobs = <<>>
    /\ \E j \in DOMAIN jobs :
          /\ hist[j].asked = <<1>>
          /\ hist[j].reclaims = 2
          /\ hist[j].lost = {"w1", "w2"}
          /\ jobs[j].state = "failed"
          /\ jobs[j].failure = RetriesExceeded
          /\ jobs[j].retries = 0

\* C5, as stated: a job put with retry budget r fails with "retries
\* exceeded" after exactly r lapsed leases.
C5_AfterExactlyR ==
    \A j \in DOMAIN jobs :
        jobs[j].failure = RetriesExceeded => hist[j].reclaims = Budget(j)

\* the retries the put stored: the budget named, or 5 when it was 0 or none
Stored(j) == IF Budget(j) = 0 THEN DefaultRetries ELSE Budget(j)

\* C5, amended: a job fails with "retries exceeded" at its (s + 1)-th lapsed
\* lease, where s is the retries-remaining its put stored: no job has that
\* failure after fewer, none is reclaimed more often, and the reclaim that
\* is the (s + 1)-th moves the job to failed with that category.
C5_Counts ==
    \A j \in DOMAIN jobs :
        /\ hist[j].reclaims <= Stored(j) + 1
        /\ jobs[j].failure = RetriesExceeded => hist[j].reclaims = Stored(j) + 1
        /\ hist[j].reclaims = Stored(j) + 1 => jobs[j].state = "failed"

C5_LastReclaim ==
    \A j \in DOMAIN jobs :
        (hist'[j].reclaims = Stored(j) + 1 /\ hist[j].reclaims = Stored(j)) =>
            /\ jobs'[j].state = "failed"
            /\ jobs'[j].failure = RetriesExceeded
            /\ j \in failed'

C5_AfterStoredPlusOne == []C5_Counts /\ [][C5_LastReclaim]_vars

\* a job put with retries=0 has been failed by its sixth lapsed lease
C5_Witness ==
    \E j \in DOMAIN jobs :
        /\ hist[j].asked = <<0>>
        /\ hist[j].reclaims = 6
        /\ jobs[j].state = "failed"
        /\ jobs[j].failure = RetriesExceeded

\* ---------------------------------------------------------------- order
\* a sorts no later than b: lower priority value, then earlier creation
NoLater(a, b) ==
    \/ jobs'[a].priority < jobs'[b].priority
    \/ jobs'[a].priority = jobs'[b].priority /\ jobs'[a].created <= jobs'[b].created

Min(a, b) == IF a < b THEN a ELSE b

\* the jobs a pop returned are the n first of the queue's waiting set, taken
\* after every lapsed lease was reclaimed and every due job promoted
PoppedSmallest(n) ==
    LET s == ret'.jobs
        q == ret'.queue
        W == work'[q] \cup Range(s)
    IN  /\ Len(s) = Min(n, Cardinality(W))
        /\ Cardinality(Range(s)) = Len(s)
        /\ \A i \in 1..Len(s) : \A k \in i..Len(s) : NoLater(s[i], s[k])
        /\ \A i \in 1..Len(s) : \A j \in work'[q] : NoLater(s[i], j)
        /\ \A j \in scheduled'[q] : jobs'[j].ready > now
        /\ \A j \in locks'[q] \ Range(s) : jobs'[j].expires >= now

\* the count a caller asks for: one job when it names none
Asked(count) == IF count = <<>> THEN 1 ELSE count[1]

\* C6: pop(count=n) returns the n first jobs of the waiting set by
\* (priority, createdAt), or all of them when there are fewer than n.
C6_PopStep ==
    ret'.op = "pop" =>
        \A c \in CountArgs :
            Pop(ret'.queue, ret'.worker, c) => PoppedSmallest(Asked(c))

C6_PopReturnsNSmallest == [][C6_PopStep]_vars

\* C6 for the count the engine is sent (`count or 1`): the part of the claim
\* that holds
C6_SentStep ==
    ret'.op = "pop" =>
        \A c \in CountArgs :
            Pop(ret'.queue, ret'.worker, c) => PoppedSmallest(OrDefault(c, 1))

C6_PopReturnsSentSmallest == [][C6_SentStep]_vars

\* the job with priority -5, put second, was popped before the one with 5
C6_Witness ==
    /\ ret.op = "pop"
    /\ ret.jobs = <<2>>
    /\ jobs[2].priority = -5
    /\ 1 \in work["qa"]
    /\ jobs[1].priority = 5

\* C7: a job put with a delay is handed out by no pop or peek made before
\* its time, and the first pop or peek of its queue made at or after its time
\* finds it in waiting and returns it unless jobs that sort no later fill the
\* count; a job put with delay 0 is in waiting at once.
C7_Step ==
    /\ ret'.op \in {"pop", "peek"} =>
          /\ \A j \in Range(ret'.jobs) : j \in DOMAIN hist /\ hist[j].due <= now
          /\ \A j \in DOMAIN jobs :
                (jobs[j].queue = ret'.queue /\ jobs[j].state = "scheduled") =>
                    IF hist[j].due > now
                    THEN jobs'[j].state = "scheduled"
                    ELSE /\ j \in ret'.woke
                         /\ j \in work'[ret'.queue] \cup Range(ret'.jobs)
                         /\ j \notin Range(ret'.jobs) =>
                               /\ Len(ret'.jobs) >= 1
                               /\ \A i \in 1..Len(ret'.jobs) : NoLater(ret'.jobs[i], j)
    /\ ret'.op = "put" =>
          IF hist'[ret'.job].due = 0
          THEN ret'.job \in work'[ret'.queue]
          ELSE ret'.job \in scheduled'[ret'.queue]

C7_DelayedVisibility == [][C7_Step]_vars

\* a pop made when a delayed job's time had come returned that job
C7_Witness ==
    /\ ret.op = "pop"
    /\ \E j \in ret.woke :
          /\ j \in Range(ret.jobs)
          /\ jobs[j].created + TickLen = now
          /\ jobs[j].state = "leased"

\* --------------------------------------------------------------- handles
\* C8: a heartbeat by a worker that is not the job's lease-owner, or made
\* after the lease-expiry has passed (reclaimed or not), returns 0 and leaves
\* the job's lease-owner and lease-expiry as they were.
C8_Step ==
    ret'.op = "heartbeat" =>
        LET j == ret'.job
        IN  (jobs[j].worker # ret'.worker \/ Lapsed(j)) =>
                /\ ret'.val = 0
                /\ jobs'[j].worker = jobs[j].worker
                /\ jobs'[j].expires = jobs[j].expires

C8_HeartbeatNoOp == [][C8_Step]_vars

\* C8 for the worker that is not the lease-owner (another worker's lease, or
\* a job that waits, is scheduled, failed or retired): the part of the claim
\* that holds
C8_NonOwnerStep ==
    ret'.op = "heartbeat" =>
        LET j == ret'.job
        IN  jobs[j].worker # ret'.worker => ret'.val = 0 /\ UNCHANGED engine

C8_NonOwnerNoOp == [][C8_NonOwnerStep]_vars

\* the owner's heartbeat after its lease had run out was answered with a new
\* expiry
C8_Witness ==
    /\ ret.op = "heartbeat"
    /\ ret.val = now + hb
    /\ now >= 2 * TickLen
    /\ jobs[ret.job].worker = ret.worker
    /\ jobs[ret.job].expires = ret.val
    /\ hist[ret.job].reclaims = 0

\* C9: complete returns false and changes no job record and no queue set
\* unless the job is leased to the calling worker on the queue the call
\* names; so a worker whose lease was reclaimed gets false, and the job stays
\* where the reclaim put it.
C9_Step ==
    ret'.op = "complete" =>
        LET j == ret'.job
        IN  ~(/\ jobs[j].state = "leased"
              /\ jobs[j].worker = ret'.worker
              /\ jobs[j].queue = ret'.queue) =>
                ret'.val = 0 /\ UNCHANGED engine

C9_CompleteNeedsLease == [][C9_Step]_vars

\* w1 lost its lease to a reclaim, w2 holds the job, and w1's complete was
\* answered false
C9_Witness ==
    /\ ret.op = "complete"
    /\ ret.val = 0
    /\ ret.worker = "w1"
    /\ ret.queue = jobs[ret.job].queue
    /\ hist[ret.job].reclaims = 1
    /\ "w1" \in hist[ret.job].lost
    /\ jobs[ret.job].state = "leased"
    /\ jobs[ret.job].worker = "w2"

\* C10: fail on a job that waits, is scheduled or is leased (to the caller or
\* not) returns the job's id and leaves the job failed under the category
\* given, in the failure ledger and in no queue set, with no lease-owner and
\* no lease-expiry; a failed job stays failed, and every heartbeat or
\* complete on it returns 0/false and changes nothing.
C10_Step ==
    /\ ret'.op = "fail" =>
          LET j == ret'.job
          IN  jobs[j].state \in {"waiting", "scheduled", "leased"} =>
                  /\ ret'.val = j
                  /\ jobs'[j].state = "failed"
                  /\ jobs'[j].failure \in Categories
                  /\ j \in failed'
                  /\ \A q \in Queues : j \notin work'[q] \cup scheduled'[q] \cup locks'[q]
                  /\ jobs'[j].worker = NoWorker
                  /\ jobs'[j].expires = 0
    /\ ret'.op \in {"heartbeat", "complete"} =>
          (jobs[ret'.job].state = "failed" => ret'.val = 0 /\ UNCHANGED engine)
    /\ \A j \in DOMAIN jobs : jobs[j].state = "failed" => jobs'[j].state = "failed"

C10_FailAlwaysAllowed == [][C10_Step]_vars

\* a job leased to w1 was failed while w1 held it, and w1's complete that
\* followed was answered false
C10_Witness ==
    /\ ret.op = "complete"
    /\ ret.val = 0
    /\ ret.worker = "w1"
    /\ hist[ret.job].reclaims = 0
    /\ hist[ret.job].lost = {"w1"}
    /\ jobs[ret.job].state = "failed"
    /\ jobs[ret.job].failure \in Categories
    /\ ret.job \in failed

\* ---------------------------------------------------------------- length
\* the jobs of queue q that wait, are scheduled or are leased
Members(q) ==
    {j \in DOMAIN jobs :
        jobs[j].queue = q /\ jobs[j].state \in {"waiting", "scheduled", "leased"}}

\* C11: len(queue) is size(waiting) + size(scheduled) + size(locks) of the
\* queue at one instant, the instant the pipeline executes: whatever moved
\* jobs between the sets while the commands were buffered, every job of the
\* queue that waits, is scheduled or is leased counts once, and no other
\* job counts.
C11_Step ==
    ret'.op = "len" =>
        LET q == ret'.queue
        IN  /\ ret'.val = Cardinality(work[q]) + Cardinality(scheduled[q])
                            + Cardinality(locks[q])
            /\ ret'.val = Cardinality(Members(q))
            /\ UNCHANGED engine

C11_LenIsSnapshot == [][C11_Step]_vars

\* the length 1 was returned for a queue of two jobs, one failed and one
\* popped at the very time the length was taken
C11_Witness ==
    /\ ret.op = "len"
    /\ ret.val = 1
    /\ Cardinality(DOMAIN jobs) = 2
    /\ \E j \in DOMAIN jobs : jobs[j].state = "failed"
    /\ \E j \in DOMAIN jobs : jobs[j].state = "leased" /\ jobs[j].expires = now + hb

\* ------------------------------------------------------------------ move
\* C12: a put under the id of a job that exists makes no second job: the job
\* is then in waiting of the target queue, or in its scheduled set when a
\* delay > 0 is given, and in no other set and not in the failure ledger; a
\* lease it was under is cleared, and while the job is not popped again a
\* heartbeat or complete by the worker that held it returns 0/false and
\* changes nothing.
C12_Step ==
    /\ ret'.op = "move" =>
          LET j == ret'.job
              q == ret'.queue
          IN  /\ DOMAIN jobs' = DOMAIN jobs
              /\ ret'.val = j
              /\ jobs'[j].queue = q
              /\ jobs'[j].worker = NoWorker
              /\ jobs'[j].expires = 0
              /\ IF hist'[j].due > 0
                 THEN jobs'[j].state = "scheduled" /\ j \in scheduled'[q]
                 ELSE jobs'[j].state = "waiting" /\ j \in work'[q]
              /\ j \notin failed'
              /\ \A p \in Queues :
                    /\ j \notin locks'[p]
                    /\ p # q => j \notin work'[p] \cup scheduled'[p]
              /\ \A i \in DOMAIN jobs \ {j} : jobs'[i] = jobs[i]
    /\ ret'.op \in {"heartbeat", "complete"} =>
          LET j == ret'.job
          IN  (ret'.worker \in hist[j].lost /\ jobs[j].worker # ret'.worker) =>
                  ret'.val = 0 /\ UNCHANGED engine

C12_PutMovesJob == [][C12_Step]_vars

\* a job leased to w1 was put again under its id, into qb, and w1's
\* heartbeat that followed was answered 0
C12_Witness ==
    /\ ret.op = "heartbeat"
    /\ ret.val = 0
    /\ ret.worker = "w1"
    /\ hist[ret.job].lost = {"w1"}
    /\ hist[ret.job].reclaims = 0
    /\ jobs[ret.job].state = "waiting"
    /\ jobs[ret.job].queue = "qb"
    /\ jobs[ret.job].created = now

\* ------------------------------------------------------- put's arguments
\* the value an argument stands for: the default only when none is passed
Passed(x, d) == IF x = <<>> THEN d ELSE x[1]

\* what the job a put made has stored, against the values v of its arguments
PutStored(j, priority, delay, retries) ==
    /\ jobs'[j].retries = retries
    /\ jobs'[j].priority = priority
    /\ IF delay > 0
       THEN jobs'[j].state = "scheduled" /\ jobs'[j].ready = now + delay
       ELSE jobs'[j].state = "waiting" /\ jobs'[j].ready = 0

\* C13: put stores the retry limit passed, for every limit r >= 0, the
\* priority passed and the delay passed; the defaults 5, 0 and 0 stand in
\* only for an argument that is not passed.
C13_Step ==
    ret'.op = "put" =>
        \A p \in PriorityArgs, d \in DelayArgs, r \in RetriesArgs :
            Put(ret'.queue, p, d, r) =>
                PutStored(ret'.job, Passed(p, 0), Passed(d, 0), Passed(r, DefaultRetries))

C13_PutStoresArgs == [][C13_Step]_vars

\* C13 for the values put sends (`priority or 0`, `delay or 0`,
\* `retries or 5`): the part of the claim that holds
C13_SentStep ==
    ret'.op = "put" =>
        \A p \in PriorityArgs, d \in DelayArgs, r \in RetriesArgs :
            Put(ret'.queue, p, d, r) =>
                PutStored(ret'.job, OrDefault(p, 0), OrDefault(d, 0),
                          OrDefault(r, DefaultRetries))

C13_PutStoresSent == [][C13_SentStep]_vars

\* a job put with retries=0 has 5 retries
C13_Witness ==
    /\ ret.op = "put"
    /\ hist[ret.job].asked = <<0>>
    /\ jobs[ret.job].retries = DefaultRetries

\* -------------------------------------------------------------- complete
\* the sets of all queues the job j is in after the step
SetsAfter(j) ==
    {<<k, q>> \in {"work", "scheduled", "locks"} \X Queues :
        \/ k = "work" /\ j \in work'[q]
        \/ k = "scheduled" /\ j \in scheduled'[q]
        \/ k = "locks" /\ j \in locks'[q]}

\* C14: a complete that succeeds takes the job out of the locks set of its
\* queue and clears its lease.  With a next queue the job is then in waiting
\* of the next queue (no delay) or in its scheduled set with ready-at = now +
\* delay (delay > 0), and in no other set of any queue, so in none of the
\* original queue when the next queue is another one; with no next queue it
\* is retired and in no set at all.  It is never in the failure ledger.
C14_Step ==
    (ret'.op = "complete" /\ ret'.val = 1) =>
        LET j == ret'.job
        IN  /\ jobs[j].state = "leased"
            /\ j \in locks[ret'.queue]
            /\ jobs'[j].worker = NoWorker
            /\ jobs'[j].expires = 0
            /\ j \notin failed'
            /\ \A a \in CompleteArgs(Queues) :
                  Complete(ret'.queue, ret'.worker, j, a[1], a[2]) =>
                      IF a[1] = <<>>
                      THEN jobs'[j].state = "complete" /\ SetsAfter(j) = {}
                      ELSE IF Passed(a[2], 0) > 0
                      THEN /\ jobs'[j].state = "scheduled"
                           /\ jobs'[j].queue = a[1][1]
                           /\ jobs'[j].ready = now + a[2][1]
                           /\ SetsAfter(j) = {<<"scheduled", a[1][1]>>}
                      ELSE /\ jobs'[j].state = "waiting"
                           /\ jobs'[j].queue = a[1][1]
                           /\ SetsAfter(j) = {<<"work", a[1][1]>>}

C14_CompleteEffects == [][C14_Step]_vars

\* a job of qa was completed into qb with a delay: scheduled there, due a
\* lease's length from now
C14_Witness ==
    /\ ret.op = "complete"
    /\ ret.val = 1
    /\ ret.queue = "qa"
    /\ jobs[ret.job].state = "scheduled"
    /\ jobs[ret.job].queue = "qb"
    /\ jobs[ret.job].ready = now + TickLen
    /\ ret.job \in scheduled["qb"]
    /\ ret.job \notin locks["qa"]

\* ------------------------------------------------------------------ peek
\* C15: peek leases nothing and removes nothing: no job gains or changes a
\* lease, the jobs returned are in waiting; a pop of the same queue with the
\* same count at the same time, nothing in between, would return the jobs
\* the peek returned in the same order, and a pop that does follow returns
\* them.
C15_Step ==
    /\ ret'.op = "peek" =>
          LET q == ret'.queue
          IN  /\ \A j \in DOMAIN jobs :
                    jobs'[j].worker # NoWorker =>
                        /\ jobs'[j].worker = jobs[j].worker
                        /\ jobs'[j].expires = jobs[j].expires
              /\ \A j \in Range(ret'.jobs) :
                    j \in work'[q] /\ jobs'[j].state = "waiting"
              /\ \A c \in CountArgs :
                    Peek(q, c) =>
                        \A w \in Workers :
                            Results(c, EnginePop(DB', q, w, OrDefault(c, 1),
                                                 now, now + hb).res) = ret'.jobs
    /\ (ret.op = "peek" /\ ret'.op = "pop" /\ ret'.queue = ret.queue) =>
          \A c \in CountArgs :
              (/\ Pop(ret'.queue, ret'.worker, c)
               /\ ret.jobs = Results(c, EnginePeek(DB, ret.queue, OrDefault(c, 1), now).res))
                  => ret'.jobs = ret.jobs

C15_PeekSelectsAsPop == [][C15_Step]_vars

\* a peek returned both jobs, the priority -5 job first, the other after its
\* lapsed lease was reclaimed by the peek
C15_Witness ==
    /\ ret.op = "peek"
    /\ ret.jobs = <<2, 1>>
    /\ jobs[2].priority < jobs[1].priority
    /\ hist[1].reclaims = 1
    /\ \A j \in {1, 2} : jobs[j].state = "waiting" /\ jobs[j].worker = NoWorker

\* --------------------------------------------------------------- reclaim
\* C16, as stated: every lease that expired is reclaimed once, and the
\* reclaim leaves the job exactly one retry less than it had when the lease
\* was granted (retries-remaining does not change while a lease runs).
C16_StatedStep ==
    \A j \in DOMAIN jobs :
        /\ jobs'[j].retries # jobs[j].retries =>
              /\ ret'.op \in {"pop", "peek"}
              /\ jobs[j].queue = ret'.queue
              /\ Lapsed(j)
        /\ (ret'.op \in {"pop", "peek"} /\ jobs[j].queue = ret'.queue /\ Lapsed(j)) =>
              /\ hist'[j].reclaims = hist[j].reclaims + 1
              /\ jobs'[j].retries = jobs[j].retries - 1
              /\ ~(jobs'[j].state = "leased" /\ jobs'[j].expires < now)
        /\ ~(ret'.op \in {"pop", "peek"} /\ jobs[j].queue = ret'.queue /\ Lapsed(j)) =>
              hist'[j].reclaims = hist[j].reclaims

C16_EveryExpiryDecrements == [][C16_StatedStep]_vars

\* C16, amended: a lease that expired is reclaimed once.  Retries-remaining
\* of a job changes only when a pop or peek of its queue finds its lease
\* lapsed, and then by one; that step ends the lease, so that no later pop or
\* peek, by whatever worker, finds the same lease again.  The reclaim of a
\* lease granted with retries left leaves one less; the reclaim of a lease
\* granted with 0 left does not decrement: it fails the job, "retries
\* exceeded", and retries-remaining stays 0.  The retries left are those
\* stored at put less the reclaims made, and 0 after the last.
C16_Step ==
    \A j \in DOMAIN jobs :
        /\ jobs'[j].retries # jobs[j].retries =>
              /\ ret'.op \in {"pop", "peek"}
              /\ jobs[j].queue = ret'.queue
              /\ Lapsed(j)
              /\ jobs'[j].retries = jobs[j].retries - 1
        /\ (ret'.op \in {"pop", "peek"} /\ jobs[j].queue = ret'.queue /\ Lapsed(j)) =>
              /\ hist'[j].reclaims = hist[j].reclaims + 1
              /\ jobs[j].retries > 0 => jobs'[j].retries = jobs[j].retries - 1
              /\ jobs[j].retries = 0 =>
                    /\ jobs'[j].retries = 0
                    /\ jobs'[j].state = "failed"
                    /\ jobs'[j].failure = RetriesExceeded
              /\ ~(jobs'[j].state = "leased" /\ jobs'[j].expires < now)
        /\ ~(ret'.op \in {"pop", "peek"} /\ jobs[j].queue = ret'.queue /\ Lapsed(j)) =>
              hist'[j].reclaims = hist[j].reclaims

C16_Counted ==
    \A j \in DOMAIN jobs :
        jobs[j].retries = IF hist[j].reclaims <= Stored(j)
                          THEN Stored(j) - hist[j].reclaims ELSE 0

C16_OneReclaimPerExpiry == []C16_Counted /\ [][C16_Step]_vars

\* w1 and w2 each let a lease of the job put with retries=1 lapse: the
\* first reclaim left 0 retries, and the peek that made the second, of the
\* lease granted with 0 left, failed the job and left 0
C16_Witness ==
    /\ ret.op = "peek"
    /\ \E j \in DOMAIN jobs :
          /\ hist[j].asked = <<1>>
          /\ hist[j].reclaims = 2
          /\ hist[j].lost = {"w1", "w2"}
          /\ jobs[j].retries = 0
          /\ jobs[j].state = "failed"
          /\ jobs[j].failure = RetriesExceeded

\* -------------------------------------------------------- expired leases
\* C17: a complete by the lease-owner made after the lease-expiry has passed
\* returns false and neither retires nor re-queues the job, also when no pop
\* or peek has reclaimed the lease yet.
C17_Step ==
    ret'.op = "complete" =>
        LET j == ret'.job
        IN  (jobs[j].worker = ret'.worker /\ Lapsed(j)) =>
                ret'.val = 0 /\ UNCHANGED engine

C17_ExpiredNeverHonored == [][C17_Step]_vars

\* C17 for a lease that has been reclaimed: the part of the claim that
\* holds.  The worker that lost the lease to a reclaim gets false, unless a
\* pop has leased the job to it anew.
C17_ReclaimedStep ==
    ret'.op = "complete" =>
        LET j == ret'.job
        IN  (/\ ret'.worker \in hist[j].lost
             /\ ~(jobs[j].state = "leased" /\ jobs[j].worker = ret'.worker)) =>
                ret'.val = 0 /\ UNCHANGED engine

C17_ReclaimedNeverHonored == [][C17_ReclaimedStep]_vars

\* ------------------------------------------------------------- heartbeat
\* C18: a heartbeat by the lease-owner made while the lease has not expired
\* returns now + 60 and makes that the lease-expiry, and changes nothing
\* else: not the owner, the retries, the priority, nor any set.  A job whose
\* lease has not expired is neither reclaimed nor returned by any pop or
\* peek, so a worker that heartbeats before each expiry keeps the job.
C18_Step ==
    /\ ret'.op = "heartbeat" =>
          LET j == ret'.job
          IN  (jobs[j].worker = ret'.worker /\ Unexpired(j)) =>
                  /\ ret'.val = now + hb
                  /\ jobs' = [jobs EXCEPT ![j].expires = now + hb]
                  /\ UNCHANGED <<work, scheduled, locks, failed>>
    /\ ret'.op \in {"pop", "peek"} =>
          \A j \in DOMAIN jobs :
              Unexpired(j) =>
                  /\ jobs'[j] = jobs[j]
                  /\ j \in locks'[jobs[j].queue]
                  /\ j \notin Range(ret'.jobs)
                  /\ hist'[j] = hist[j]

C18_HeartbeatKeepsLease == [][C18_Step]_vars

\* a lease's length after Init, when no lease can have expired, an owner's
\* heartbeat was answered with the new expiry
C18_Witness ==
    /\ ret.op = "heartbeat"
    /\ now = TickLen
    /\ ret.val = now + hb
    /\ jobs[ret.job].worker = ret.worker
    /\ jobs[ret.job].expires = now + hb
    /\ jobs[ret.job].retries = 1
    /\ hist[ret.job].reclaims = 0
    /\ hist[ret.job].lost = {}

\* ------------------------------------------------------------- isolation
\* C19: put, pop and peek on a queue, with the reclaim and promotion they
\* make, leave the three sets of every other queue and the records of the
\* jobs of every other queue as they were, and pop and peek return only jobs
\* of their own queue; the queue of a job changes only by a put under its id
\* or a complete with a next queue.
C19_Step ==
    /\ ret'.op \in {"put", "pop", "peek"} =>
          /\ \A b \in Queues \ {ret'.queue} :
                /\ work'[b] = work[b]
                /\ scheduled'[b] = scheduled[b]
                /\ locks'[b] = locks[b]
          /\ \A j \in DOMAIN jobs :
                jobs[j].queue # ret'.queue => jobs'[j] = jobs[j] /\ hist'[j] = hist[j]
    /\ ret'.op \in {"pop", "peek"} =>
          \A j \in Range(ret'.jobs) :
              jobs[j].queue = ret'.queue /\ jobs'[j].queue = ret'.queue
    /\ \A j \in DOMAIN jobs :
          jobs'[j].queue # jobs[j].queue =>
              /\ j = ret'.job
              /\ \/ ret'.op = "move"
                 \/ ret'.op = "complete" /\ ret'.val = 1

C19_QueuesIsolated == [][C19_Step]_vars

\* a pop on qa returned a job of qa while a lease of a job of qb had lapsed
\* and stayed as it was
C19_Witness ==
    /\ ret.op = "pop"
    /\ ret.queue = "qa"
    /\ Len(ret.jobs) = 1
    /\ \E i \in DOMAIN jobs :
          /\ jobs[i].queue = "qb"
          /\ Lapsed(i)
          /\ i \in locks["qb"]
          /\ hist[i].reclaims = 0

\* -------------------------------------------------------------- liveness
\* a job that is leased, and a job that is failed with "retries exceeded"
C20_Abandoned(j) == j \in DOMAIN jobs /\ jobs[j].state = "leased"

C20_RetriesExceeded(j) ==
    /\ j \in DOMAIN jobs
    /\ jobs[j].state = "failed"
    /\ jobs[j].failure = RetriesExceeded
    /\ j \in failed

\* C20, as stated: while time keeps advancing and the queue keeps being
\* popped, every job that is popped and then left alone by its worker is in
\* the end failed with "retries exceeded", and every reclaim of its lease, by
\* a pop or a peek, leaves it strictly fewer retries.
C20_StatedReclaim ==
    \A j \in DOMAIN jobs :
        (ret'.op \in {"pop", "peek"} /\ jobs[j].queue = ret'.queue /\ Lapsed(j)) =>
            jobs'[j].retries < jobs[j].retries

C20_EveryReclaimDecreases ==
    /\ \A j \in 1..LiveJobs : C20_Abandoned(j) ~> C20_RetriesExceeded(j)
    /\ [][C20_StatedReclaim]_vars

\* C20, amended: while time keeps advancing and the queue keeps being
\* popped, every job that is popped and then left alone by its worker is in
\* the end failed with "retries exceeded", so none stays leased for ever.
\* Every reclaim that finds retries left puts the job back in waiting with
\* strictly fewer; the last reclaim, which finds 0 left, does not decrease
\* them: it fails the job and retries-remaining stays 0.
C20_Reclaim ==
    \A j \in DOMAIN jobs :
        (ret'.op \in {"pop", "peek"} /\ jobs[j].queue = ret'.queue /\ Lapsed(j)) =>
            IF jobs[j].retries > 0
            THEN /\ jobs'[j].retries < jobs[j].retries
                 /\ jobs'[j].state # "failed"
            ELSE /\ jobs'[j].retries = 0
                 /\ C20_RetriesExceeded(j)'

C20_AbandonedJobFails ==
    /\ \A j \in 1..LiveJobs : C20_Abandoned(j) ~> C20_RetriesExceeded(j)
    /\ [][C20_Reclaim]_vars

\* a job put with the default retries was popped by w1 and by w2, left alone
\* six times, and is failed
C20_Witness ==
    \E j \in DOMAIN jobs :
        /\ C20_RetriesExceeded(j)
        /\ hist[j].asked = <<>>
        /\ hist[j].reclaims = DefaultRetries + 1
        /\ hist[j].lost = {"w1", "w2"}
        /\ jobs[j].retries = 0
        /\ now > LiveTicks * TickLen

====
